---- MODULE Spec2Model ----
(***************************************************************************)
(* Agri-Sarthi: the webhook (main.py), the structured-store lookups       *)
(* (agents.py), the ETL (etl.py), the vector index build                  *)
(* (build_vector_db.py) and the command-line tool (cli.py).               *)
(*                                                                         *)
(* Text.  A Python str / SQLite TEXT value is a TLA+ string, one          *)
(* character per code point.  ASCII characters stand for themselves.      *)
(* TLA+ strings are ASCII only, so the Devanagari code points of the      *)
(* program's keyword lists are written with these stand-ins (none of      *)
(* them occurs as itself in any text of the model):                       *)
(*    U+0917 [   U+0947 ]   U+0939 {   U+0942 }   U+0902 <                 *)
(*    U+0938 >   U+0930 ^   U+094B +   U+0915 !   U+0940 #                 *)
(*    U+0921 $   U+093C &   U+093E @   U+092C ?   U+092E '                 *)
(* so  gehun (U+0917 0947 0939 0942 0902) is "[]{}<",                      *)
(*     sarson is ">^>+<",  kida is "!#$&@",  rog is "^+[",                 *)
(*     bimari is "?#'@^#".                                                 *)
(* Every other Devanagari code point (they occur only inside seed texts   *)
(* and the fallback templates, which no operation inspects) is written ~, *)
(* one ~ per code point, so lengths are those of the source.              *)
(*                                                                         *)
(* Records.  TLC keeps the fields of a record in the order in which their *)
(* names first occur in the module; every record constructor below lists  *)
(* its fields in that order, so a record is built in its normal form.     *)
(***************************************************************************)
EXTENDS Integers, Sequences, FiniteSets, TLC

VARIABLES
  db,        \* the SQLite file at DB_PATH: its four tables
  chroma,    \* the persistent collection COLLECTION_NAME under CHROMA_PATH
  env,       \* what the process found at import time / in its environment
  builds,    \* completed index builds since the store last changed (history)
  firstCount,\* size of the collection after the first of those builds (history)
  last,      \* the last operation: its inputs and what its caller observed
  tasks,     \* the server's event loop: the webhook calls in flight
  tmp_audio, \* the file _tmp_audio.ogg of the server's working directory
  loads      \* models loaded by the server process since it started (history)

vars == <<db, chroma, env, builds, firstCount, last, tasks, tmp_audio, loads>>

\* what belongs to the running server
server == <<tasks, tmp_audio, loads>>

(***************************************************************************)
(* Strings                                                                 *)
(***************************************************************************)
UpperLetters == "ABCDEFGHIJKLMNOPQRSTUVWXYZ"
LowerLetters == "abcdefghijklmnopqrstuvwxyz"

\* the characters of the model in code point order (UTF-8 byte order): the
\* ASCII ones (the double quote, the backslash and the backtick occur in no
\* text of the model), then the Devanagari stand-ins
AsciiOrder ==
  " !#$%&'()*+,-./0123456789:;<=>?@ABCDEFGHIJKLMNOPQRSTUVWXYZ[]^_abcdefghijklmnopqrstuvwxyz{|}~"
DevanagariOrder == "<![$?'^>{&@#}]+~"

CharAt(s, i) == SubSeq(s, i, i)
DropFirst(s, n) == SubSeq(s, n + 1, Len(s))
TakeFirst(s, n) == SubSeq(s, 1, IF n < Len(s) THEN n ELSE Len(s))

IndexOf(c, s) ==
  IF \E i \in 1..Len(s) : CharAt(s, i) = c
  THEN CHOOSE i \in 1..Len(s) : CharAt(s, i) = c
  ELSE 0

IsDevanagari(c) == IndexOf(c, DevanagariOrder) > 0

Ord(c) ==
  IF IsDevanagari(c) THEN Len(AsciiOrder) + IndexOf(c, DevanagariOrder)
  ELSE IndexOf(c, AsciiOrder)

\* the lower case of each cased character of the model
LowerOf == [c \in {CharAt(UpperLetters, i) : i \in 1..Len(UpperLetters)} |->
              CharAt(LowerLetters, IndexOf(c, UpperLetters))]

LowerChar(c) == IF c \in DOMAIN LowerOf THEN LowerOf[c] ELSE c

RECURSIVE MapLower(_)
MapLower(s) ==
  IF Len(s) = 0 THEN ""
  ELSE IF Len(s) = 1 THEN LowerChar(s)
  ELSE LET h == Len(s) \div 2
       IN  MapLower(SubSeq(s, 1, h)) \o MapLower(SubSeq(s, h + 1, Len(s)))

\* Python str.lower()
str_lower(s) == MapLower(s)
\* SQLite LOWER(): ASCII letters only
sql_LOWER(s) == MapLower(s)

\* Python  sub in s
Contains(sub, s) ==
  \E i \in 0..(Len(s) - Len(sub)) : SubSeq(s, i + 1, i + Len(sub)) = sub

\* Python  s.startswith(p)
StartsWith(s, p) == Len(p) <= Len(s) /\ SubSeq(s, 1, Len(p)) = p

Whitespace == {" ", "\t", "\n", "\r"}

\* Python  s.strip()
str_strip(s) ==
  LET idx == {i \in 1..Len(s) : CharAt(s, i) \notin Whitespace}
  IN  IF idx = {} THEN ""
      ELSE SubSeq(s, CHOOSE i \in idx : \A j \in idx : i <= j,
                     CHOOSE i \in idx : \A j \in idx : i >= j)

\* SQLite  text LIKE pat : % matches any run, _ any one character, the
\* rest compares without regard to ASCII case
RECURSIVE sql_LIKE(_, _)
sql_LIKE(text, pat) ==
  IF pat = "" THEN text = ""
  ELSE LET c == CharAt(pat, 1)
           rest == DropFirst(pat, 1)
       IN  IF c = "%"
           THEN \E k \in 0..Len(text) : sql_LIKE(DropFirst(text, k), rest)
           ELSE /\ text # ""
                /\ c = "_" \/ LowerChar(CharAt(text, 1)) = LowerChar(c)
                /\ sql_LIKE(DropFirst(text, 1), rest)

\* SQLite BINARY collation: a < b
RECURSIVE TextLess(_, _)
TextLess(a, b) ==
  IF b = "" THEN FALSE
  ELSE IF a = "" THEN TRUE
  ELSE IF CharAt(a, 1) = CharAt(b, 1) THEN TextLess(DropFirst(a, 1), DropFirst(b, 1))
  ELSE Ord(CharAt(a, 1)) < Ord(CharAt(b, 1))

(***************************************************************************)
(* Values, rows, tables                                                    *)
(***************************************************************************)
\* a column value: SQL NULL / Python None, or a text
Null == [text |-> "", null |-> TRUE]
V(s) == [text |-> s, null |-> FALSE]

\* a row (and a Python dict) is a sequence of <<column, value>> pairs
Cols(row) == [i \in 1..Len(row) |-> row[i][1]]
HasCol(row, col) == \E i \in 1..Len(row) : row[i][1] = col
Get(row, col) == row[CHOOSE i \in 1..Len(row) : row[i][1] = col][2]

NoTable == [exists |-> FALSE, rows |-> <<>>]
Table(rows) == [exists |-> TRUE, rows |-> rows]

\* SQL ORDER BY value ASC: NULLs first, then BINARY order
ValueLess(a, b) ==
  IF a.null THEN ~b.null
  ELSE ~b.null /\ TextLess(a.text, b.text)

RECURSIVE InsertBy(_, _, _)
InsertBy(row, sorted, col) ==
  IF sorted = <<>> THEN <<row>>
  ELSE IF ValueLess(Get(row, col), Get(Head(sorted), col))
       THEN <<row>> \o sorted
       ELSE <<Head(sorted)>> \o InsertBy(row, Tail(sorted), col)

\* mutant: the ORDER BY clause is missing
OrderBy_table_order(rows, col) == rows

RECURSIVE OrderBy(_, _)
OrderBy(rows, col) ==
  IF rows = <<>> THEN <<>>
  ELSE InsertBy(rows[Len(rows)], OrderBy(SubSeq(rows, 1, Len(rows) - 1), col), col)

RECURSIVE SelectRows(_, _)
\* the rows r of the sequence with keep[r index], in table order
SelectRows(rows, keep) ==
  IF rows = <<>> THEN <<>>
  ELSE LET n == Len(rows)
           front == SelectRows(SubSeq(rows, 1, n - 1), keep)
       IN  IF keep[n] THEN Append(front, rows[n]) ELSE front

\* SELECT cols FROM row
Project(row, cols) == [i \in 1..Len(cols) |-> <<cols[i], Get(row, cols[i])>>]

(***************************************************************************)
(* etl.py: the seed data and the load                                      *)
(***************************************************************************)
seed_crop_rows == <<
  << <<"crop", V("Wheat")>>,
     <<"location", V("Jaipur, Rajasthan")>>,
     <<"season", V("Rabi")>>,
     <<"sowing_period", V("November - December")>>,
     <<"harvesting_period", V("March - April")>>,
     <<"irrigation_schedule", V("First irrigation 20-25 days after sowing, then every 20-25 days depending on rainfall")>>,
     <<"fertilizer", V("Apply 120 kg N, 60 kg P2O5, 40 kg K2O per hectare in splits as per soil test")>>,
     <<"pests", V("Aphids, Rust; consider timely monitoring and IPM practices")>> >>,
  << <<"crop", V("Mustard")>>,
     <<"location", V("Jaipur, Rajasthan")>>,
     <<"season", V("Rabi")>>,
     <<"sowing_period", V("October - November")>>,
     <<"harvesting_period", V("February - March")>>,
     <<"irrigation_schedule", V("First irrigation 25-30 days after sowing, critical stages at flowering and pod formation")>>,
     <<"fertilizer", V("Apply 60 kg N, 40 kg P2O5, 20 kg K2O per hectare in splits as per soil test")>>,
     <<"pests", V("Aphids, Alternaria blight; adopt IPM and timely sprays if required")>> >> >>

seed_soil_rows == <<
  << <<"location", V("Jaipur, Rajasthan")>>,
     <<"soil_type", V("Sandy loam to loam")>>,
     <<"ph_min", V("6.5")>>,
     <<"ph_max", V("8.0")>>,
     <<"n_status", V("Low to Medium")>>,
     <<"p_status", V("Low to Medium")>>,
     <<"k_status", V("Medium")>> >> >>

seed_pest_rows == <<
  << <<"pest_name", V("White Grub (>~&]~ ~~)")>>,
     <<"affected_crop", V("Mustard")>>,
     <<"symptoms", V("Roots eaten, plant wilting, sudden drying of plants. ~$&]< ~@~ {~~, ~~~@ '~^~@ ^{@ {~, ~~@~! >}~~@~")>>,
     <<"management_advice", V("Apply Phorate 10G granules at 10 kg/ha before sowing. ?~~@~ >] ~{~] ~+^]~ 10~# ~@~] 10 !~[~^@/{]!~~]~^ !# ~^ >] ~~^~+[ !^]<~")>> >>,
  << <<"pest_name", V("Aphids ('@{} or ~~<~@)")>>,
     <<"affected_crop", V("Wheat")>>,
     <<"symptoms", V("Yellowing of leaves, sticky honeydew secretion, black sooty mold. ~~~~~~+< !@ ~#~@ ~$&~@, ~~~~~~@ >~^@~, !@~@ !~!~")>>,
     <<"management_advice", V("Spray Imidacloprid 17.8% SL at 1 ml/litre of water. ~'~$@!~~+~~^~$ 17.8% ~>~~ !@ 1 '~~#/~#~^ ~@~# ']< ~+~!^ ~~$&!@~ !^]<~")>> >> >>

seed_scheme_rows == <<
  << <<"scheme_name", V("Pradhan Mantri Fasal Bima Yojana (PMFBY)")>>,
     <<"purpose", V("Crop insurance against yield losses. ~>~ {@~~ !] ~~~@~ ?#'@~")>>,
     <<"eligibility", V("All farmers, including sharecroppers and tenant farmers, growing notified crops in notified areas.")>>,
     <<"benefits", V("Provides insurance coverage and financial support in the event of crop failure due to natural calamities, pests, or diseases.")>>,
     <<"how_to_apply", V("Contact your nearest bank, Primary Agricultural Credit Society (PACS), or a Common Service Center (CSC). ~~~] ~~&~#!# ?~<!, PACS, ~@ CSC !]<~~^ >] ><~^~! !^]<~")>> >>,
  << <<"scheme_name", V("Kisan Credit Card (KCC)")>>,
     <<"purpose", V("Provides affordable credit for farmers. !~>@~+< !+ >>~~# ~^ ~^ !^~~&~")>>,
     <<"eligibility", V("All farmers, individuals/joint borrowers who are owner cultivators.")>>,
     <<"benefits", V("Short-term credit for cultivation, post-harvest expenses, and other farm needs. Low interest rates, with subsidies available.")>>,
     <<"how_to_apply", V("Apply at any commercial bank, regional rural bank, or cooperative bank. !~># ~# !'^~~~~~ ?~<!, [~^@'#~ ?~<!, ~@ >{!@^# ?~<! ']< ~~]~~ !^]<~")>> >> >>

TableNames == {"crop_info", "soil_data", "pest_info", "govt_schemes"}

\* CREATE TABLE IF NOT EXISTS for the four tables
ensure_database_schema(d) ==
  [t \in TableNames |-> IF d[t].exists THEN d[t] ELSE Table(<<>>)]

\* to_sql(if_exists="replace") of the crop and soil frames
load_to_sqlite(d, crop_df, soil_df) ==
  [ensure_database_schema(d) EXCEPT !["crop_info"] = Table(crop_df),
                                    !["soil_data"] = Table(soil_df)]

\* DELETE FROM pest_info, then the seed rows
create_and_populate_pest_info(d) ==
  [ensure_database_schema(d) EXCEPT !["pest_info"] = Table(seed_pest_rows)]

\* DELETE FROM govt_schemes, then the seed rows
create_and_populate_govt_schemes(d) ==
  [ensure_database_schema(d) EXCEPT !["govt_schemes"] = Table(seed_scheme_rows)]

\* run_etl: the result is [raised, db]
run_etl(d) ==
  LET crop_df == seed_crop_rows
      soil_df == seed_soil_rows
  IN  IF crop_df = <<>> \/ soil_df = <<>>
      THEN [db |-> d, raised |-> TRUE]
      ELSE [db |-> create_and_populate_govt_schemes(
                     create_and_populate_pest_info(
                       load_to_sqlite(d, crop_df, soil_df))),
            raised |-> FALSE]

(***************************************************************************)
(* agents.py: the structured-store lookups                                 *)
(***************************************************************************)
crop_keys == <<"crop", "location", "season", "sowing_period", "harvesting_period",
               "irrigation_schedule", "fertilizer", "pests">>
pest_keys == <<"pest_name", "affected_crop", "symptoms", "management_advice">>

\* the statement names a table or a column the file does not have
OperationalError(t, cols) ==
  \/ ~t.exists
  \/ \E i \in 1..Len(t.rows) : \E k \in 1..Len(cols) : ~HasCol(t.rows[i], cols[k])

\* WHERE LOWER(crop) = LOWER(?) AND LOWER(location) LIKE LOWER(?)
CropRowMatches(row, crop, location) ==
  /\ ~Get(row, "crop").null
  /\ ~Get(row, "location").null
  /\ sql_LOWER(Get(row, "crop").text) = sql_LOWER(crop)
  /\ sql_LIKE(sql_LOWER(Get(row, "location").text), sql_LOWER("%" \o location \o "%"))

\* get_crop_advice: [raised, value]; value is the dict ({} is <<>>)
get_crop_advice(d, crop, location) ==
  LET t == d["crop_info"]
  IN  IF OperationalError(t, crop_keys)
      THEN [raised |-> TRUE, value |-> <<>>]
      ELSE LET hits == SelectRows(t.rows,
                         [i \in 1..Len(t.rows) |-> CropRowMatches(t.rows[i], crop, location)])
           IN  [raised |-> FALSE,
                value |-> IF hits = <<>> THEN <<>> ELSE Project(hits[1], crop_keys)]

\* WHERE LOWER(affected_crop) = LOWER(?)
PestRowMatches(row, crop) ==
  /\ ~Get(row, "affected_crop").null
  /\ sql_LOWER(Get(row, "affected_crop").text) = sql_LOWER(crop)

\* get_pest_advice: [raised, value]; value is the list of dicts
get_pest_advice(d, crop) ==
  LET t == d["pest_info"]
  IN  IF OperationalError(t, pest_keys)
      THEN [raised |-> FALSE, value |-> <<>>]
      ELSE LET hits == SelectRows(t.rows,
                         [i \in 1..Len(t.rows) |-> PestRowMatches(t.rows[i], crop)])
               sorted == OrderBy(hits, "pest_name")
           IN  [raised |-> FALSE,
                value |-> [i \in 1..Len(sorted) |-> Project(sorted[i], pest_keys)]]

(***************************************************************************)
(* agents.py: the external signals.  The network is outside the program:  *)
(* each call's outcome is an input of the operation.                      *)
(***************************************************************************)
\* get_weather(location): wx.ok is FALSE when the request, the status or the
\* parsing fails; otherwise wx carries the values of the reply as printed
get_weather(location, wx) ==
  IF wx.ok
  THEN << <<"location", V(location)>>,
          <<"temperature_c", wx.temperature>>,
          <<"windspeed_kmh", wx.windspeed>>,
          <<"weathercode", wx.weathercode>>,
          <<"humidity", wx.humidity>>,
          <<"precipitation_mm", wx.precipitation>> >>
  ELSE << <<"location", V(location)>>,
          <<"temperature_c", Null>>,
          <<"windspeed_kmh", Null>>,
          <<"weathercode", Null>>,
          <<"humidity", Null>>,
          <<"precipitation_mm", Null>> >>

fallback_prices == << <<"wheat", "Wheat", "2200">>, <<"mustard", "Mustard", "5400">> >>

\* mutant: the seeded table is looked up with the crop as given
get_market_price_as_given(crop, scrape) ==
  IF scrape.found
  THEN << <<"market", V("Jaipur")>>, <<"crop", V(crop)>>,
          <<"price_inr_per_quintal", scrape.price>> >>
  ELSE IF \E i \in 1..Len(fallback_prices) : fallback_prices[i][1] = crop
  THEN LET e == fallback_prices[CHOOSE i \in 1..Len(fallback_prices) :
                                  fallback_prices[i][1] = crop]
       IN  << <<"market", V("Jaipur")>>, <<"crop", V(e[2])>>,
              <<"price_inr_per_quintal", V(e[3])>> >>
  ELSE << <<"market", V("Jaipur")>>, <<"crop", V(crop)>>,
          <<"price_inr_per_quintal", Null>> >>

\* get_market_price(crop): scrape.found is what _parse_agmarknet_price gave
\* for a page fetched with status 200; anything else leaves the seeded table
get_market_price(crop, scrape) ==
  IF scrape.found
  THEN << <<"market", V("Jaipur")>>, <<"crop", V(crop)>>,
          <<"price_inr_per_quintal", scrape.price>> >>
  ELSE IF \E i \in 1..Len(fallback_prices) : fallback_prices[i][1] = str_lower(crop)
  THEN LET e == fallback_prices[CHOOSE i \in 1..Len(fallback_prices) :
                                  fallback_prices[i][1] = str_lower(crop)]
       IN  << <<"market", V("Jaipur")>>, <<"crop", V(e[2])>>,
              <<"price_inr_per_quintal", V(e[3])>> >>
  ELSE << <<"market", V("Jaipur")>>, <<"crop", V(crop)>>,
          <<"price_inr_per_quintal", Null>> >>

(***************************************************************************)
(* main.py                                                                 *)
(***************************************************************************)
DEFAULT_LOCATION == "Jaipur, Rajasthan"
WHEAT_KEYWORDS == <<"wheat", "[]{}<", "gehun", "gehu">>
MUSTARD_KEYWORDS == <<"mustard", ">^>+<", "sarson">>
PEST_KEYWORDS == <<"pest", "disease", "!#$&@", "^+[", "?#'@^#">>

ContextExcerptLen == 400

\* any(k in text for k in keywords)
AnyIn(keywords, text) == \E i \in 1..Len(keywords) : Contains(keywords[i], text)

\* the keyword orchestrator of both branches of webhook: Null is None
resolve_crop(uq_lower) ==
  IF AnyIn(WHEAT_KEYWORDS, uq_lower) THEN V("Wheat")
  ELSE IF AnyIn(MUSTARD_KEYWORDS, uq_lower) THEN V("Mustard")
  ELSE Null

\* Python str(v) / f"{v}"
PyStr(v) == IF v.null THEN "None" ELSE v.text

RECURSIVE Join(_, _)
\* sep.join(parts)
Join(parts, sep) ==
  IF Len(parts) = 0 THEN ""
  ELSE IF Len(parts) = 1 THEN parts[1]
  ELSE Join(SubSeq(parts, 1, Len(parts) - 1), sep) \o sep \o parts[Len(parts)]

\* ", ".join(f"{k}={v}" for k, v in d.items() if v is not None and v != "")
DictItems(d) ==
  LET kept == SelectRows(d, [i \in 1..Len(d) |-> ~d[i][2].null /\ d[i][2].text # ""])
  IN  Join([i \in 1..Len(kept) |-> kept[i][1] \o "=" \o kept[i][2].text], ", ")

\* mutant: a failure to load the model does not empty the transcript
transcribe_audio_ignores_load_failure(e, audio, stt) ==
  IF stt.transcribe_fails \/ audio.bytes = "" THEN ""
  ELSE str_strip(audio.speech)

\* transcribe_audio(file_bytes): stt is what the whisper calls do
transcribe_audio(e, audio, stt) ==
  IF ~e.whisper THEN ""
  ELSE IF stt.load_fails \/ stt.transcribe_fails \/ audio.bytes = "" THEN ""
  ELSE str_strip(audio.speech)

\* run_llm_hindi(context, user_query): llm is what the ctransformers calls do
run_llm_hindi(e, context, user_query, llm) ==
  IF ~e.ctransformers
  THEN "!~~~@ ~~~@~ ~]<: ~~&~@~~ LLM ~~~?~~ ~{#< {~~ ~~!] ~~^~~~ !@ ><!~~~~~~ ~~~~^: "
         \o user_query \o " | ><~^~~: " \o TakeFirst(context, ContextExcerptLen)
  ELSE IF llm.raises
  THEN "!~~~@ ~~~@~ ~]<: LLM >] ~~~~^ ~~^]~ ~{#< {+ >!@~ ><!~~]~: " \o user_query
  ELSE str_strip(llm.output)

\* build_context(crop, location, include_pest_advice): [raised, data, calls]
build_context(d, crop, location, include_pest_advice, world) ==
  IF ~crop.null
  THEN LET ci == get_crop_advice(d, crop.text, location)
       IN  IF ci.raised
           THEN [raised |-> TRUE, calls |-> {"get_crop_advice"},
                 data |-> [crop_info |-> <<>>, weather |-> <<>>, market_price |-> <<>>,
                           pest_advice |-> <<>>]]
           ELSE [raised |-> FALSE,
                 calls |-> {"get_crop_advice", "get_market_price", "get_weather"}
                             \cup (IF include_pest_advice THEN {"get_pest_advice"} ELSE {}),
                 data |-> [crop_info |-> ci.value,
                           weather |-> get_weather(location, world.wx),
                           market_price |-> get_market_price(crop.text, world.scrape),
                           pest_advice |-> IF include_pest_advice
                                           THEN get_pest_advice(d, crop.text).value
                                           ELSE <<>>]]
  ELSE [raised |-> FALSE, calls |-> {"get_weather"},
        data |-> [crop_info |-> <<>>, weather |-> get_weather(location, world.wx),
                  market_price |-> <<>>, pest_advice |-> <<>>]]

\* format_context_string(data, user_query, crop, location)
format_context_string(data, user_query, crop, location) ==
  LET pest_strs == [i \in 1..Len(data.pest_advice) |->
                      PyStr(Get(data.pest_advice[i], "pest_name")) \o ": symptoms="
                        \o PyStr(Get(data.pest_advice[i], "symptoms")) \o "; management="
                        \o PyStr(Get(data.pest_advice[i], "management_advice"))]
      parts ==
        <<"User: " \o user_query, "Location: " \o location>>
        \o (IF ~crop.null /\ crop.text # "" THEN <<"Crop: " \o crop.text>> ELSE <<>>)
        \o (IF data.crop_info # <<>>
            THEN <<"Crop Info: " \o DictItems(data.crop_info)>> ELSE <<>>)
        \o (IF data.weather # <<>>
            THEN <<"Weather: " \o DictItems(data.weather)>> ELSE <<>>)
        \o (IF data.market_price # <<>>
            THEN <<"Market Price: " \o DictItems(data.market_price)>> ELSE <<>>)
        \o (IF data.pest_advice # <<>>
            THEN <<"Pest Advice: " \o Join(pest_strs, " || ")>> ELSE <<>>)
  IN  Join(parts, " | ")

\* mutant: the sender id is not looked at
send_whatsapp_text_any_sender(e, to_number, text, world) ==
  IF ~e.whatsapp_api_url THEN 0 ELSE 1

\* send_whatsapp_text(to_number, text): the number of POSTs it attempts; what
\* the POST does (world.relay_ok or not) is swallowed
send_whatsapp_text(e, to_number, text, world) ==
  IF ~e.whatsapp_api_url \/ ~e.whatsapp_sender_id THEN 0 ELSE 1

\* a field of a JSON object or of a form: absent, null, or a text
Absent == [text |-> "", null |-> FALSE, present |-> FALSE]
JNull == [text |-> "", null |-> TRUE, present |-> TRUE]
F(s) == [text |-> s, null |-> FALSE, present |-> TRUE]

NoBody == [location |-> Absent, parses |-> FALSE,
           is_object |-> FALSE, from_number |-> Absent, message |-> Absent]
NoAudio == [bytes |-> "", speech |-> "", present |-> FALSE]
NoForm == [location |-> Absent, audio |-> NoAudio, from_number |-> Absent]

\* what the caller of the webhook observes, and what the handler did
Response(status, ok, answer, transcript, error, fault, user_query, crop, ctx, calls, posts) ==
  [crop |-> crop, ok |-> ok, user_query |-> user_query, calls |-> calls,
   status |-> status, answer |-> answer, transcript |-> transcript, error |-> error,
   fault |-> fault, ctx |-> ctx, posts |-> posts]

\* an exception leaves the handler: the framework answers 500
Unhandled(user_query, crop, calls) ==
  Response(500, FALSE, "", Null, "", TRUE, user_query, crop, "", calls, 0)

\* orjson.loads(body) and WebhookText(**data) accept the body
BodyValid(body) ==
  /\ body.parses
  /\ body.is_object
  /\ body.from_number.present /\ ~body.from_number.null
  /\ body.message.present /\ ~body.message.null

\* mutant: the content type is compared without regard to case
IsJson_any_case(content_type) == StartsWith(str_lower(content_type), "application/json")

\* content_type.startswith("application/json")
IsJson(content_type) == StartsWith(content_type, "application/json")
\* content_type.startswith("multipart/form-data")
IsMultipart(content_type) == StartsWith(content_type, "multipart/form-data")

\* the orchestration both branches share: slot filling, context, answer, relay
answer_query(e, d, user_query, location, from_number, transcript, world) ==
  LET uq_lower == str_lower(user_query)
      crop == resolve_crop(uq_lower)
      include_pests == AnyIn(PEST_KEYWORDS, uq_lower)
      bc == build_context(d, crop, location, include_pests, world)
  IN  IF bc.raised THEN Unhandled(user_query, crop, bc.calls)
      ELSE LET ctx == format_context_string(bc.data, user_query, crop, location)
               answer == run_llm_hindi(e, ctx, user_query, world.llm)
               posts == send_whatsapp_text(e, from_number, answer, world)
           IN  Response(200, TRUE, answer, transcript, "", FALSE, user_query, crop, ctx,
                        bc.calls \cup {"run_llm_hindi", "send_whatsapp_text"}, posts)

\* the application/json branch
webhook_json(e, d, body, world) ==
  IF ~BodyValid(body) THEN Unhandled("", Null, {})
  ELSE LET user_query == str_strip(body.message.text)
           location == IF body.location.present /\ ~body.location.null
                          /\ body.location.text # ""
                       THEN body.location.text ELSE DEFAULT_LOCATION
       IN  answer_query(e, d, user_query, location, body.from_number.text, Null, world)

\* the multipart/form-data branch
webhook_multipart(e, d, form, world) ==
  LET from_number == IF form.from_number.present THEN form.from_number.text ELSE ""
      location == IF form.location.present THEN form.location.text ELSE DEFAULT_LOCATION
      transcript == IF form.audio.present
                    THEN transcribe_audio(e, form.audio, world.stt) ELSE ""
  IN  answer_query(e, d, transcript, location, from_number, V(transcript), world)

\* POST /webhook
webhook(e, d, request, world) ==
  IF IsJson(request.content_type) THEN webhook_json(e, d, request.body, world)
  ELSE IF IsMultipart(request.content_type)
  THEN webhook_multipart(e, d, request.form, world)
  ELSE Response(400, FALSE, "", Null, "Unsupported content-type", FALSE, "", Null, "", {}, 0)

(***************************************************************************)
(* build_vector_db.py                                                      *)
(***************************************************************************)
Digits == "0123456789"

RECURSIVE IntStr(_)
\* f"{i}" of a non-negative int
IntStr(i) ==
  IF i < 10 THEN CharAt(Digits, i + 1)
  ELSE IntStr(i \div 10) \o CharAt(Digits, (i % 10) + 1)

indexed_tables == <<"crop_info", "pest_info", "govt_schemes">>

batch_size == 100

\* the document of one row: every column of the frame, in column order
format_document(table, row) ==
  "Table: " \o table \o " | "
    \o Join([i \in 1..Len(row) |-> row[i][1] \o ": " \o PyStr(row[i][2])], " | ")

\* the documents of one table; a table that cannot be read gives none
table_docs(d, table) ==
  IF ~d[table].exists THEN <<>>
  ELSE [i \in 1..Len(d[table].rows) |->
          [document |-> format_document(table, d[table].rows[i]),
           metadata |-> [source |-> table, id |-> d[table].rows[i][1][2]]]]

RECURSIVE load_tables(_, _)
load_tables(d, tables) ==
  IF Len(tables) = 0 THEN <<>>
  ELSE load_tables(d, SubSeq(tables, 1, Len(tables) - 1))
         \o table_docs(d, tables[Len(tables)])

\* load_data_from_sqlite()
load_data_from_sqlite(d) == load_tables(d, indexed_tables)

NoCollection == [exists |-> FALSE, entries |-> <<>>]

\* mutant: the existing collection is kept
delete_collection_skipped(coll) == coll

\* client.delete_collection(name) inside try/except
delete_collection(coll) == NoCollection

\* client.create_collection(name)
create_collection(coll) == [exists |-> TRUE, entries |-> coll.entries]

RECURSIVE add_batches(_, _, _)
\* for i in range(0, len(documents), batch_size): collection.add(slice)
add_batches(coll, entries, i) ==
  IF i >= Len(entries) THEN coll
  ELSE add_batches(
         [coll EXCEPT !.entries =
            @ \o SubSeq(entries, i + 1,
                        IF i + batch_size < Len(entries) THEN i + batch_size
                        ELSE Len(entries))],
         entries, i + batch_size)

\* run_vector_db_build(): [raised, ran, chroma]; ran says the load took place.
\* An entry's embedding is embedder.encode of its document and is not kept.
run_vector_db_build(e, d, coll) ==
  IF ~e.chromadb THEN [chroma |-> coll, raised |-> FALSE, ran |-> FALSE]
  ELSE LET docs == load_data_from_sqlite(d)
       IN  IF Len(docs) = 0 THEN [chroma |-> coll, raised |-> FALSE, ran |-> FALSE]
           ELSE LET entries == [i \in 1..Len(docs) |->
                                  [document |-> docs[i].document,
                                   metadata |-> docs[i].metadata,
                                   id |-> docs[i].metadata.source \o "_" \o IntStr(i - 1)]]
                    fresh == create_collection(delete_collection(coll))
                IN  [chroma |-> add_batches(fresh, entries, 0), raised |-> FALSE,
                     ran |-> TRUE]

(***************************************************************************)
(* cli.py                                                                  *)
(***************************************************************************)
\* the etl command: what it prints last
cli_etl(d) ==
  LET r == run_etl(d)
  IN  [db |-> r.db,
       printed |-> IF r.raised THEN "ETL process failed"
                   ELSE "ETL process completed successfully.", failed |-> r.raised]

\* the build-db command: what it prints last
cli_build_db(e, d, coll) ==
  LET r == run_vector_db_build(e, d, coll)
  IN  [chroma |-> r.chroma,
       ran |-> r.ran, printed |-> IF r.raised THEN "Vector DB build failed"
                   ELSE "Vector database build completed successfully.", failed |-> r.raised]

(***************************************************************************)
(* The state machine                                                       *)
(***************************************************************************)
MaxBuilds == 3

\* knowledge.db before the first ETL: sqlite3.connect creates an empty file
FreshStore == [t \in TableNames |-> NoTable]

\* a knowledge.db left by an earlier load, which the ETL replaces table by
\* table (DROP/CREATE by to_sql, DELETE FROM by the populate functions).  Only
\* SpecStore starts from it: it holds several pest rows for one crop, in an
\* order that is not the sorted one, which the seed data does not.
PriorStore ==
  [FreshStore EXCEPT
     !["crop_info"] = Table(<<
        << <<"crop", V("WHEAT")>>,
           <<"location", V("Kota, Rajasthan")>>,
           <<"season", Null>>,
           <<"sowing_period", V("")>>,
           <<"harvesting_period", V("April")>>,
           <<"irrigation_schedule", V("Every 21 days")>>,
           <<"fertilizer", Null>>,
           <<"pests", V("Termite")>> >> >>),
     !["pest_info"] = Table(<<
        << <<"pest_name", V("Termite")>>, <<"affected_crop", V("wheat")>>,
           <<"symptoms", V("Wilting")>>, <<"management_advice", Null>> >>,
        << <<"pest_name", V("aphids")>>, <<"affected_crop", V("WHEAT")>>,
           <<"symptoms", V("")>>, <<"management_advice", V("Neem oil")>> >>,
        << <<"pest_name", V("Rust")>>, <<"affected_crop", V("Mustard")>>,
           <<"symptoms", V("Pustules")>>, <<"management_advice", V("Mancozeb")>> >>,
        << <<"pest_name", V("Aphids")>>, <<"affected_crop", V("Wheat")>>,
           <<"symptoms", V("Honeydew")>>, <<"management_advice", V("Imidacloprid")>> >>
        >>)]

InitialStores == {FreshStore, PriorStore}

\* import whisper / ctransformers / chromadb+sentence_transformers succeeded;
\* WHATSAPP_API_URL / WHATSAPP_SENDER_ID are set
Environments ==
  [whisper : BOOLEAN, ctransformers : BOOLEAN, whatsapp_api_url : BOOLEAN,
   whatsapp_sender_id : BOOLEAN, chromadb : BOOLEAN]

Idle == [op |-> "none"]

\* what the whisper calls of one transcription do
SttFine == [transcribe_fails |-> FALSE, load_fails |-> FALSE]
SttOutcomes ==
  {SttFine, [SttFine EXCEPT !.load_fails = TRUE], [SttFine EXCEPT !.transcribe_fails = TRUE]}

MaxRequests == 2
Requests == 1..MaxRequests

\* a webhook call that has not arrived
NoTask == [audio |-> NoAudio, stt |-> SttFine, status |-> 0, transcript |-> "", pc |-> "idle"]

\* the server process has just started: main.py loads no model at import
ServerIdle ==
  /\ tasks = [r \in Requests |-> NoTask]
  /\ tmp_audio = NoAudio
  /\ loads = [whisper |-> 0, llm |-> 0]

\* the command-line process reads chromadb; the flags only the server reads
\* are held fixed
OfflineEnvironments ==
  {e \in Environments :
     e.whisper /\ e.ctransformers /\ e.whatsapp_api_url /\ e.whatsapp_sender_id}

Init ==
  /\ db = FreshStore
  /\ chroma = NoCollection
  /\ env \in OfflineEnvironments
  /\ builds = 0
  /\ firstCount = 0
  /\ last = Idle
  /\ ServerIdle

\* the same, over a store that may already hold tables
InitStore ==
  /\ db \in InitialStores
  /\ chroma = NoCollection
  /\ env \in OfflineEnvironments
  /\ builds = 0
  /\ firstCount = 0
  /\ last = Idle
  /\ ServerIdle

\* the server process reads every flag but chromadb, which is held fixed
InitWebhook ==
  /\ db = FreshStore
  /\ chroma = NoCollection
  /\ env \in {e \in Environments : e.chromadb}
  /\ builds = 0
  /\ firstCount = 0
  /\ last = Idle
  /\ ServerIdle

\* the caller has taken the outcome of the last operation
Observe ==
  /\ last.op # "none"
  /\ last' = Idle
  /\ UNCHANGED <<db, chroma, env, builds, firstCount>>
  /\ UNCHANGED server

\* python cli.py etl
Etl ==
  /\ last.op = "none"
  /\ LET r == cli_etl(db)
     IN  /\ db' = r.db
         /\ builds' = IF r.db = db THEN builds ELSE 0
         /\ firstCount' = IF r.db = db THEN firstCount ELSE 0
         /\ last' = [printed |-> r.printed, failed |-> r.failed, op |-> "etl"]
  /\ UNCHANGED <<chroma, env>>
  /\ UNCHANGED server

\* python cli.py build-db
BuildDb ==
  /\ last.op = "none"
  /\ builds < MaxBuilds
  /\ LET r == cli_build_db(env, db, chroma)
     IN  /\ chroma' = r.chroma
         /\ builds' = builds + 1
         /\ firstCount' = IF builds = 0 THEN Len(r.chroma.entries) ELSE firstCount
         /\ last' = [ran |-> r.ran, printed |-> r.printed, failed |-> r.failed,
                     op |-> "build_db", source_rows |-> Len(load_data_from_sqlite(db))]
  /\ UNCHANGED <<db, env>>
  /\ UNCHANGED server

LookupCrops == {"Wheat", "wheat", "MUSTARD", "Rice", ""}
LookupLocations ==
  {"Jaipur, Rajasthan", "jaipur", "Rajasthan", "Kota", "Delhi", "", "%", "J_ipur"}

\* a direct call of get_crop_advice(crop, location)
LookupCrop ==
  /\ last.op = "none"
  /\ \E crop \in LookupCrops, location \in LookupLocations :
       LET r == get_crop_advice(db, crop, location)
       IN  last' = [raised |-> r.raised, crop |-> crop, location |-> location,
                    value |-> r.value, op |-> "get_crop_advice"]
  /\ UNCHANGED <<db, chroma, env, builds, firstCount>>
  /\ UNCHANGED server

\* a direct call of get_pest_advice(crop)
LookupPests ==
  /\ last.op = "none"
  /\ \E crop \in LookupCrops :
       LET r == get_pest_advice(db, crop)
       IN  last' = [raised |-> r.raised, crop |-> crop,
                    value |-> r.value, op |-> "get_pest_advice"]
  /\ UNCHANGED <<db, chroma, env, builds, firstCount>>
  /\ UNCHANGED server

JsonTypes == {"application/json", "application/json; charset=utf-8"}
MultipartTypes == {"multipart/form-data; boundary=x"}
\* "" is a request without the header
OtherTypes == {"text/plain", "", "Application/JSON"}

Messages ==
  {"  Wheat irrigation ", ">^>+< irrigation", "gehun aur sarson", "mustard pest", "hello"}

JsonBodies ==
  {NoBody,
   [NoBody EXCEPT !.parses = TRUE],
   [NoBody EXCEPT !.parses = TRUE, !.is_object = TRUE, !.from_number = F("919999999999")],
   [NoBody EXCEPT !.parses = TRUE, !.is_object = TRUE, !.message = F("hello")]}
  \cup {[location |-> l, parses |-> TRUE, is_object |-> TRUE,
         from_number |-> F("919999999999"), message |-> F(m)] :
          m \in Messages, l \in {Absent, F("Delhi")}}
  \cup {[location |-> l, parses |-> TRUE, is_object |-> TRUE,
         from_number |-> F("919999999999"), message |-> F("  Wheat irrigation ")] :
          l \in {JNull, F(""), F("Kota")}}

AudioFiles ==
  {NoAudio,
   [bytes |-> "", speech |-> "", present |-> TRUE],
   [bytes |-> "OggS1", speech |-> " sarson me rog ", present |-> TRUE],
   [bytes |-> "OggS2", speech |-> "Gehun", present |-> TRUE]}

Forms ==
  [location : {Absent}, audio : AudioFiles, from_number : {F("919999999999")}]
  \cup {[location |-> F("Kota"), audio |-> [bytes |-> "OggS2", speech |-> "Gehun", present |-> TRUE],
          from_number |-> Absent]}

LlmOutcomes ==
  {[raises |-> TRUE, output |-> ""],
   [raises |-> FALSE, output |-> " Namaste. "],
   [raises |-> FALSE, output |-> "  "]}

WeatherOutcomes ==
  {[ok |-> FALSE, temperature |-> Null, windspeed |-> Null, weathercode |-> Null,
    humidity |-> Null, precipitation |-> Null],
   [ok |-> TRUE, temperature |-> V("31.2"), windspeed |-> V("7.4"), weathercode |-> V("1"),
    humidity |-> V("40"), precipitation |-> Null]}

ScrapeOutcomes == {[found |-> FALSE, price |-> Null], [found |-> TRUE, price |-> V("2350")]}

Worlds(stts) ==
  [wx : WeatherOutcomes, scrape : ScrapeOutcomes, stt : stts,
   llm : LlmOutcomes, relay_ok : BOOLEAN]

Serve(request, world) ==
  /\ last.op = "none"
  /\ last' = [world |-> world, request |-> request, op |-> "webhook",
              resp |-> webhook(env, db, request, world)]
  /\ UNCHANGED <<db, chroma, env, builds, firstCount>>
  /\ UNCHANGED server

\* POST /webhook with a JSON content type
WebhookJson ==
  \E ct \in JsonTypes, body \in JsonBodies, world \in Worlds({SttFine}) :
    Serve([body |-> body, content_type |-> ct, form |-> NoForm], world)

\* POST /webhook with a multipart content type
WebhookMultipart ==
  \E ct \in MultipartTypes, form \in Forms, world \in Worlds(SttOutcomes) :
    Serve([body |-> NoBody, content_type |-> ct, form |-> form], world)

\* POST /webhook with any other content type
WebhookOther ==
  \E ct \in OtherTypes, world \in Worlds({SttFine}) :
    Serve([body |-> NoBody, content_type |-> ct, form |-> NoForm], world)

\* the offline jobs and the store lookups
Next == Etl \/ BuildDb \/ LookupCrop \/ LookupPests \/ Observe

Spec == Init /\ [][Next]_vars

SpecStore == InitStore /\ [][Next]_vars

\* the server
NextWebhook == Etl \/ WebhookJson \/ WebhookMultipart \/ WebhookOther \/ Observe

SpecWebhook == InitWebhook /\ [][NextWebhook]_vars

(***************************************************************************)
(* Properties                                                              *)
(***************************************************************************)
IsWebhook == last.op = "webhook"
LastType == last.request.content_type

\* C1: a request whose Content-Type starts with neither application/json nor
\* multipart/form-data (or that has no such header) is answered 400 with
\* ok=false and an error string, and nothing is looked up, generated or
\* relayed for it.
C1_UnsupportedTypeRejected ==
  (IsWebhook /\ ~StartsWith(LastType, "application/json")
             /\ ~StartsWith(LastType, "multipart/form-data"))
  => /\ last.resp.status = 400
     /\ ~last.resp.ok
     /\ last.resp.error # ""
     /\ ~last.resp.fault
     /\ last.resp.calls = {}
     /\ last.resp.posts = 0

C1_Witness ==
  IsWebhook /\ LastType = "text/plain" /\ last.resp.status = 400 /\ ~last.resp.ok

\* the body is not JSON, or lacks from_number or message
Malformed(body) ==
  ~body.parses \/ ~body.from_number.present \/ ~body.message.present

\* C2: a JSON request with a malformed body is answered with a 400-class
\* status, and no unhandled fault leaves the handler.
C2_MalformedJsonIs4xx ==
  (IsWebhook /\ StartsWith(LastType, "application/json") /\ Malformed(last.request.body))
  => last.resp.status \in 400..499 /\ ~last.resp.fault

\* the request went through the orchestration (it was neither rejected nor
\* stopped by a malformed body)
Orchestrated ==
  /\ IsWebhook
  /\ \/ StartsWith(LastType, "multipart/form-data")
     \/ StartsWith(LastType, "application/json") /\ ~Malformed(last.request.body)
        /\ ~last.request.body.from_number.null /\ ~last.request.body.message.null

\* the text the user sent: the stripped message, or the transcript of the audio
UserText == last.resp.user_query

\* the location the request names, or the default one
RequestLocation ==
  IF StartsWith(LastType, "application/json")
  THEN LET l == last.request.body.location
       IN  IF l.present /\ ~l.null /\ l.text # "" THEN l.text ELSE "Jaipur, Rajasthan"
  ELSE LET l == last.request.form.location
       IN  IF l.present THEN l.text ELSE "Jaipur, Rajasthan"

ExpectedCrop(text) ==
  IF \E k \in {"wheat", "[]{}<", "gehun", "gehu"} : Contains(k, str_lower(text))
  THEN V("Wheat")
  ELSE IF \E k \in {"mustard", ">^>+<", "sarson"} : Contains(k, str_lower(text))
  THEN V("Mustard")
  ELSE Null

\* the rows of crop_info for a crop and a location
RowsFor(crop, location) ==
  IF ~db["crop_info"].exists THEN {}
  ELSE {i \in 1..Len(db["crop_info"].rows) :
          LET row == db["crop_info"].rows[i]
          IN  /\ ~Get(row, "crop").null /\ ~Get(row, "location").null
              /\ str_lower(Get(row, "crop").text) = str_lower(crop)
              /\ Contains(str_lower(location), str_lower(Get(row, "location").text))}

CropSlotResolved == Orchestrated => last.resp.crop = ExpectedCrop(UserText)

ContextHasIrrigation ==
  (Orchestrated /\ ~last.resp.crop.null
     /\ RowsFor(last.resp.crop.text, RequestLocation) # {})
  => /\ last.resp.status = 200 /\ last.resp.ok /\ ~last.resp.fault
     /\ \A i \in RowsFor(last.resp.crop.text, RequestLocation) :
          LET v == Get(db["crop_info"].rows[i], "irrigation_schedule")
          IN  ~v.null => Contains(v.text, last.resp.ctx)

\* C3: the crop slot comes from the lowercased user text (Wheat
\* before Mustard, else none), and when the store holds a row for the crop
\* and the location, the context contains its irrigation_schedule and the
\* response is ok=true with a non-empty answer.
C3_CropSlotAndAnswer ==
  /\ CropSlotResolved
  /\ ContextHasIrrigation
  /\ (Orchestrated /\ ~last.resp.crop.null
        /\ RowsFor(last.resp.crop.text, RequestLocation) # {})
     => last.resp.answer # ""

C3_Witness ==
  /\ Orchestrated
  /\ last.resp.crop = V("Mustard")
  /\ UserText = ">^>+< irrigation"
  /\ RowsFor("Mustard", RequestLocation) # {}
  /\ Contains("irrigation_schedule=First irrigation 25-30 days", last.resp.ctx)
  /\ last.resp.ok /\ last.resp.answer # ""

\* the audio of the request cannot be transcribed
Untranscribable ==
  /\ IsWebhook /\ StartsWith(LastType, "multipart/form-data")
  /\ last.request.form.audio.present
  /\ \/ last.request.form.audio.bytes = ""
     \/ ~env.whisper
     \/ last.world.stt.load_fails
     \/ last.world.stt.transcribe_fails

\* C4: a multipart request whose audio cannot be transcribed gets the empty
\* transcript, no crop, an answer generated from the fallback context, and
\* ok=true with transcript "" instead of a server error.
C4_FailedTranscriptionStillAnswers ==
  Untranscribable
  => /\ last.resp.status = 200 /\ last.resp.ok /\ ~last.resp.fault
     /\ last.resp.transcript = V("")
     /\ last.resp.crop.null
     /\ "run_llm_hindi" \in last.resp.calls
     /\ "get_crop_advice" \notin last.resp.calls
     /\ ~Contains("Crop Info: ", last.resp.ctx)

C4_Witness ==
  /\ Untranscribable
  /\ last.request.form.audio.speech = "Gehun"
  /\ env.whisper /\ last.world.stt.load_fails
  /\ last.resp.status = 200 /\ last.resp.transcript = V("")

IsCropLookup == last.op = "get_crop_advice"
IsPestLookup == last.op = "get_pest_advice"

\* C5: whatever the store holds, also when the ETL never ran and crop_info or
\* pest_info does not exist, neither lookup surfaces an exception, and over a
\* missing table its result is empty.
C5_LookupsFailSoftly ==
  /\ IsCropLookup
       => ~last.raised /\ (~db["crop_info"].exists => last.value = <<>>)
  /\ IsPestLookup
       => ~last.raised /\ (~db["pest_info"].exists => last.value = <<>>)

\* the dict get_crop_advice builds from a row
CropRecord(row) ==
  [k \in 1..8 |->
     LET key == <<"crop", "location", "season", "sowing_period", "harvesting_period",
                  "irrigation_schedule", "fertilizer", "pests">>[k]
     IN  <<key, Get(row, key)>>]

\* C6: lookup_crop(crop, location) returns exactly one record when a row's
\* crop equals the argument case-insensitively and its location contains the
\* argument as a case-insensitive substring, and returns empty for every
\* other pair, % and _ in the location included.
C6_LookupCropExact ==
  (IsCropLookup /\ ~last.raised)
  => IF RowsFor(last.crop, last.location) # {}
     THEN \E i \in RowsFor(last.crop, last.location) :
            last.value = CropRecord(db["crop_info"].rows[i])
     ELSE last.value = <<>>

\* the dict get_pest_advice builds from a row
PestRecord(row) ==
  [k \in 1..4 |->
     LET key == <<"pest_name", "affected_crop", "symptoms", "management_advice">>[k]
     IN  <<key, Get(row, key)>>]

\* the rows of pest_info whose affected_crop is the crop, whatever the case
PestRowsFor(crop) ==
  {i \in 1..Len(db["pest_info"].rows) :
     LET a == Get(db["pest_info"].rows[i], "affected_crop")
     IN  ~a.null /\ str_lower(a.text) = str_lower(crop)}

\* C7: lookup_pests(crop) returns exactly the pest_info rows whose
\* affected_crop equals the crop case-insensitively, in ascending order of
\* pest_name, and the empty list, not an error, when the table is absent.
C7_LookupPestsSorted ==
  IsPestLookup
  => /\ ~last.raised
     /\ IF ~db["pest_info"].exists THEN last.value = <<>>
        ELSE /\ Len(last.value) = Cardinality(PestRowsFor(last.crop))
             /\ \A i \in PestRowsFor(last.crop) :
                  Cardinality({j \in 1..Len(last.value) :
                                 last.value[j] = PestRecord(db["pest_info"].rows[i])})
                  = Cardinality({k \in PestRowsFor(last.crop) :
                                   db["pest_info"].rows[k] = db["pest_info"].rows[i]})
             /\ \A i, j \in 1..Len(last.value) :
                  i < j => ~ValueLess(Get(last.value[j], "pest_name"),
                                      Get(last.value[i], "pest_name"))

\* three rows come back, and not in the order the table holds them
C7_Witness ==
  /\ IsPestLookup
  /\ db["pest_info"].exists
  /\ Len(last.value) = 3
  /\ Get(last.value[1], "pest_name") = V("Aphids")
  /\ Get(db["pest_info"].rows[1], "pest_name") = V("Termite")

CollectionCount == IF chroma.exists THEN Len(chroma.entries) ELSE 0

\* C8: over a non-empty store that does not change, after any number n >= 1
\* of builds the collection holds as many documents as after the first one.
C8_RebuildIdempotent ==
  (builds >= 1 /\ Len(load_data_from_sqlite(db)) > 0)
  => CollectionCount = firstCount

C8_Witness ==
  /\ builds >= 2
  /\ env.chromadb
  /\ last.op = "build_db" /\ last.ran
  /\ CollectionCount = 6 /\ firstCount = 6

\* C9: when the build runs (its libraries are installed) and no row is found
\* across the source tables, it ends in an error its caller observes as a
\* failure, and creates no empty collection.
C9_EmptyBuildFails ==
  (last.op = "build_db" /\ env.chromadb /\ last.source_rows = 0)
  => last.failed /\ ~chroma.exists

SumRows[ts \in SUBSET TableNames] ==
  IF ts = {} THEN 0
  ELSE LET t == CHOOSE x \in ts : TRUE
       IN  Len(db[t].rows) + SumRows[ts \ {t}]

\* the store is the one the ETL leaves
AfterEtl == db = run_etl(FreshStore).db

\* C10: after the ETL and a successful build the collection holds one entry
\* per row of every table of the store (crop_info, soil_data, pest_info,
\* govt_schemes), each tagged with its source table.
C10_OneEntryPerRow ==
  (last.op = "build_db" /\ last.ran /\ AfterEtl)
  => /\ CollectionCount = SumRows[TableNames]
     /\ \A t \in TableNames :
          Cardinality({i \in 1..Len(chroma.entries) :
                         chroma.entries[i].metadata.source = t})
          = Len(db[t].rows)

\* the handler went through the orchestration and answered
Answered == IsWebhook /\ last.resp.status = 200 /\ "run_llm_hindi" \in last.resp.calls

\* the local model cannot be used: the runtime is not installed, or loading
\* the weights (or the call) raises
ModelUnusable == ~env.ctransformers \/ last.world.llm.raises

\* C11: whenever the answer generator cannot use the local model (runtime
\* missing, or weights that cannot be loaded) it returns, without raising, a
\* templated fallback that contains the user query and the context
\* truncated to the fixed excerpt length.
C11_FallbackEchoesQueryAndContext ==
  (Answered /\ ModelUnusable)
  => /\ ~last.resp.fault
     /\ Contains(last.resp.user_query, last.resp.answer)
     /\ Contains(TakeFirst(last.resp.ctx, ContextExcerptLen), last.resp.answer)

\* the runtime is missing, the context is longer than the excerpt, and the
\* answer carries the query and exactly the excerpt
C11_Witness ==
  /\ Answered /\ ~env.ctransformers
  /\ Len(last.resp.ctx) > ContextExcerptLen
  /\ Contains(last.resp.user_query \o " | ><~^~~: "
                \o TakeFirst(last.resp.ctx, ContextExcerptLen), last.resp.answer)
  /\ ~Contains(TakeFirst(last.resp.ctx, ContextExcerptLen + 1), last.resp.answer)

\* what the caller sees of the response
Visible(resp) == <<resp.status, resp.ok, resp.answer, resp.transcript, resp.error>>

\* the same request, served when the relay's POST has the other outcome
OtherRelayOutcome ==
  webhook(env, db, last.request, [last.world EXCEPT !.relay_ok = ~@])

\* C12: the relay to the messaging endpoint is attempted at most once per
\* request, only after the answer has been generated and only when the
\* endpoint URL and the sender id are configured; whether its POST fails or
\* succeeds, the HTTP response (status, ok, answer) is the same.
C12_RelayBestEffort ==
  IsWebhook
  => /\ last.resp.posts \in {0, 1}
     /\ last.resp.posts = 1
          => /\ Answered
             /\ env.whatsapp_api_url /\ env.whatsapp_sender_id
     /\ Visible(OtherRelayOutcome) = Visible(last.resp)
     /\ OtherRelayOutcome.posts = last.resp.posts

\* the relay is configured, its POST fails, and the request is answered 200
C12_Witness ==
  /\ Answered
  /\ env.whatsapp_api_url /\ env.whatsapp_sender_id
  /\ ~last.world.relay_ok
  /\ last.resp.posts = 1
  /\ last.resp.ok /\ last.resp.answer # ""

\* the collection was just built from the store as it is
JustBuilt == last.op = "build_db" /\ last.ran

\* the rows of the source table an entry was made from
SourceRows(entry) ==
  {i \in 1..Len(db[entry.metadata.source].rows) :
     db[entry.metadata.source].rows[i][1][2] = entry.metadata.id}

\* the document has a segment for the column
HasSegment(document, col) == Contains(" | " \o col \o ": ", document)

\* C13: in the document the formatter makes of a row, every column whose
\* value is null or empty is omitted: the document has no "col: val"
\* segment for it.
C13_NullAndEmptyOmitted ==
  JustBuilt
  => \A k \in 1..Len(chroma.entries) :
       \A i \in SourceRows(chroma.entries[k]) :
         LET row == db[chroma.entries[k].metadata.source].rows[i]
         IN  \A c \in 1..Len(row) :
               (row[c][2].null \/ row[c][2].text = "")
               => ~HasSegment(chroma.entries[k].document, row[c][1])

\* a row with a null and an empty column was indexed
C13_Witness ==
  /\ JustBuilt
  /\ \E k \in 1..Len(chroma.entries) :
       /\ chroma.entries[k].metadata.source = "crop_info"
       /\ \E i \in SourceRows(chroma.entries[k]) :
            /\ Get(db["crop_info"].rows[i], "season").null
            /\ Get(db["crop_info"].rows[i], "sowing_period") = V("")
            /\ HasSegment(chroma.entries[k].document, "harvesting_period")

(***************************************************************************)
(* The document formatter on its own                                       *)
(***************************************************************************)
\* values a TEXT column of pest_info can hold, among them the text None and
\* texts that contain the separator and a column prefix
SymptomValues ==
  {Null, V("None"), V(""), V("Wilting"), V("Wilting | management_advice: Neem oil")}
AdviceValues ==
  {Null, V("None"), V("Spray"), V("Neem oil"), V("Neem oil | management_advice: Spray")}

PestRows ==
  {<< <<"pest_name", V("Termite")>>, <<"affected_crop", V("Wheat")>>,
      <<"symptoms", s>>, <<"management_advice", m>> >> :
     s \in SymptomValues, m \in AdviceValues}

\* two rows of pest_info go through the formatter of load_data_from_sqlite
FormatRows ==
  /\ last.op = "none"
  /\ \E first \in PestRows, second \in PestRows :
       last' = [op |-> "format_document", first |-> first, second |-> second,
                first_document |-> format_document("pest_info", first),
                second_document |-> format_document("pest_info", second)]
  /\ UNCHANGED <<db, chroma, env, builds, firstCount>>
  /\ UNCHANGED server

NextFormat == FormatRows \/ Observe

SpecFormat == Init /\ [][NextFormat]_vars

\* C14: the formatter is injective: two rows that differ in at least one
\* field have different documents, also when values contain the separator,
\* a column prefix or the text None.
C14_FormatInjective ==
  (last.op = "format_document" /\ last.first # last.second)
  => last.first_document # last.second_document

\* two rows that differ were formatted, one of them holding the separator
C14_Witness ==
  /\ last.op = "format_document"
  /\ last.first # last.second
  /\ Contains(" | ", Get(last.first, "symptoms").text)
  /\ last.first_document # last.second_document

(***************************************************************************)
(* The price lookup on its own                                             *)
(***************************************************************************)
PriceCrops ==
  {"wheat", "Wheat", "WHEAT", "wHeAt", "mustard", "Mustard", "MUSTARD", "mUSTARD",
   "Rice", "", "wheat ", "gehun"}

\* what the request to the portal and the parse of its page come to: no
\* page (an exception, or a status other than 200), a page without a row
\* for Jaipur and the crop, or a row, with or without a number in it
PriceScrapes ==
  {[found |-> FALSE, price |-> Null, page |-> "network error"],
   [found |-> FALSE, price |-> Null, page |-> "status 503"],
   [found |-> FALSE, price |-> Null, page |-> "no matching row"],
   [found |-> TRUE, price |-> V("2350"), page |-> "row with a price"],
   [found |-> TRUE, price |-> Null, page |-> "row without a price"]}

\* get_market_price(crop) is called
LookupPrice ==
  /\ last.op = "none"
  /\ \E crop \in PriceCrops, scrape \in PriceScrapes :
       last' = [crop |-> crop, value |-> get_market_price(crop, scrape), scrape |-> scrape,
                op |-> "get_market_price"]
  /\ UNCHANGED <<db, chroma, env, builds, firstCount>>
  /\ UNCHANGED server

NextPrice == LookupPrice \/ Observe

SpecPrice == Init /\ [][NextPrice]_vars

\* the seeded price of a crop, whatever its casing
SeededPrice(crop) ==
  IF str_lower(crop) = "wheat" THEN V("2200")
  ELSE IF str_lower(crop) = "mustard" THEN V("5400")
  ELSE Null

\* C15: whenever scraping yields nothing (network error, status other than
\* 200, no matching row) the price lookup returns the seeded price 2200 for
\* any casing of wheat, 5400 for any casing of mustard, and a record with a
\* null price for every other crop.
C15_SeededPriceFallback ==
  (last.op = "get_market_price" /\ ~last.scrape.found)
  => /\ Cols(last.value) = <<"market", "crop", "price_inr_per_quintal">>
     /\ Get(last.value, "market") = V("Jaipur")
     /\ Get(last.value, "price_inr_per_quintal") = SeededPrice(last.crop)

\* the portal answers 503 and WHEAT gets the seeded 2200
C15_Witness ==
  /\ last.op = "get_market_price"
  /\ last.crop = "WHEAT" /\ last.scrape.page = "status 503"
  /\ Get(last.value, "price_inr_per_quintal") = V("2200")

(***************************************************************************)
(* The server's event loop: multipart calls of the webhook in flight.      *)
(* webhook is a coroutine of one event loop: another call runs only while  *)
(* this one is suspended in an await that waits for input or output.       *)
(* transcribe_audio has no await inside, and nothing between its return    *)
(* and send_whatsapp_text awaits, so that stretch is one step.             *)
(***************************************************************************)
\* the ETL ran before the server started; the relay is configured
InitServer ==
  /\ db = run_etl(FreshStore).db
  /\ chroma = NoCollection
  /\ env \in {e \in Environments :
                e.chromadb /\ e.whatsapp_api_url /\ e.whatsapp_sender_id}
  /\ builds = 0
  /\ firstCount = 0
  /\ last = Idle
  /\ ServerIdle

\* what the other calls of a request's handling come to
ServerWorld(stt) ==
  [wx |-> [ok |-> FALSE, temperature |-> Null, windspeed |-> Null, weathercode |-> Null,
           humidity |-> Null, precipitation |-> Null],
   scrape |-> [found |-> FALSE, price |-> Null],
   stt |-> stt,
   llm |-> [raises |-> FALSE, output |-> " Namaste. "],
   relay_ok |-> TRUE]

\* form = await request.form(): the call has its form and its own upload
AcceptForm(r) ==
  /\ tasks[r].pc = "idle"
  /\ \E audio \in AudioFiles :
       tasks' = [tasks EXCEPT ![r] = [@ EXCEPT !.pc = "form", !.audio = audio]]
  /\ UNCHANGED <<db, chroma, env, builds, firstCount, last, tmp_audio, loads>>

\* audio_bytes = await file.read()
ReadUpload(r) ==
  /\ tasks[r].pc = "form"
  /\ tasks' = [tasks EXCEPT ![r] = [@ EXCEPT !.pc = "read"]]
  /\ UNCHANGED <<db, chroma, env, builds, firstCount, last, tmp_audio, loads>>

\* transcribe_audio (load the model, write _tmp_audio.ogg, transcribe that
\* path, remove it), the orchestration and run_llm_hindi (load the model,
\* generate), up to the await inside send_whatsapp_text
Answer(r) ==
  /\ tasks[r].pc = "read"
  /\ \E stt \in SttOutcomes :
       LET audio == tasks[r].audio
           loaded == audio.present /\ env.whisper /\ ~stt.load_fails
           written == IF loaded THEN audio ELSE tmp_audio
           transcript == IF audio.present THEN transcribe_audio(env, written, stt) ELSE ""
           removed == loaded /\ ~stt.transcribe_fails /\ audio.bytes # ""
           resp == answer_query(env, db, transcript, DEFAULT_LOCATION, "919999999999",
                                V(transcript), ServerWorld(stt))
           generated == resp.status = 200 /\ env.ctransformers
       IN  /\ tmp_audio' = IF removed THEN NoAudio ELSE written
           /\ loads' = [whisper |-> loads.whisper + (IF loaded THEN 1 ELSE 0),
                        llm |-> loads.llm + (IF generated THEN 1 ELSE 0)]
           /\ tasks' = [tasks EXCEPT ![r] =
                          [@ EXCEPT !.pc = IF resp.posts = 1 THEN "relay" ELSE "done",
                                    !.stt = stt,
                                    !.transcript = transcript,
                                    !.status = resp.status]]
  /\ UNCHANGED <<db, chroma, env, builds, firstCount, last>>

\* the POST of send_whatsapp_text is over: the response is returned
Respond(r) ==
  /\ tasks[r].pc = "relay"
  /\ tasks' = [tasks EXCEPT ![r] = [@ EXCEPT !.pc = "done"]]
  /\ UNCHANGED <<db, chroma, env, builds, firstCount, last, tmp_audio, loads>>

NextServer ==
  \E r \in Requests : AcceptForm(r) \/ ReadUpload(r) \/ Answer(r) \/ Respond(r)

SpecServer == InitServer /\ [][NextServer]_vars

\* the call has its transcript
Transcribed(r) == tasks[r].pc \in {"relay", "done"} /\ tasks[r].audio.present

\* nothing stood in the way of transcribing the call's upload
Transcribable(r) ==
  /\ env.whisper /\ tasks[r].stt = SttFine
  /\ tasks[r].audio.bytes # ""

\* the audio transcribed for a call is the audio that call uploaded
OwnAudioTranscribed ==
  \A r \in Requests :
    Transcribed(r)
    => /\ tasks[r].transcript \in {"", str_strip(tasks[r].audio.speech)}
       /\ Transcribable(r) => tasks[r].transcript = str_strip(tasks[r].audio.speech)

\* each model was loaded at most once since the process started
HandlesLoadedOnce == loads.whisper <= 1 /\ loads.llm <= 1

\* C16: however concurrently handled webhook calls interleave, none observes
\* state written by another: the audio transcribed for a multipart call is
\* the audio that call uploaded, although all calls write it to the same
\* path, and the model handles are loaded once and never reloaded while
\* requests are served.
C16_NoCrossRequestState == OwnAudioTranscribed /\ HandlesLoadedOnce

\* two calls in flight at once with different uploads: the second is
\* answered while the first is suspended in its relay, each with its own
\* transcript
C16_Witness ==
  /\ tasks[1].pc = "relay" /\ tasks[2].pc = "relay"
  /\ tasks[1].transcript = "Gehun"
  /\ tasks[2].transcript = "sarson me rog"
  /\ loads.whisper = 2

====
